---- MODULE Spec2Model ----
(***************************************************************************)
(* Big Data Pipeline Simulator (src/Big_Data_pipeline.py).                 *)
(*                                                                         *)
(* The program is a Streamlit script: every user interaction re-executes   *)
(* the script top to bottom.  Between runs the session keeps the widget    *)
(* values (the uploaded file, the selected metric) and st.session_state    *)
(* (the SparkSim instance).  One action of the model is one run of the     *)
(* script, triggered by one interaction.                                   *)
(*                                                                         *)
(* Five specifications share the definitions of the classes:              *)
(*   Spec       the application as shipped (hard-coded seed), with every   *)
(*              interaction: rerun, upload, buttons, metric selection;     *)
(*   SpecSeeds  the same script with SparkSim constructed on any seed of   *)
(*              the bounded set Seeds (default pipeline, no upload);       *)
(*   SpecAPI    class SparkSim used directly: its methods called in any    *)
(*              order on an instance built on any seed;                    *)
(*   SpecAlias  SpecAPI with a caller that mutates the list it handed to   *)
(*              the constructor;                                           *)
(*   SpecDAG    class PipelineDAG used directly: a graph built by any      *)
(*              add_node and add_edge calls, then drawn.                   *)
(***************************************************************************)
EXTENDS Integers, Sequences, FiniteSets, TLC

VARIABLES
    uploaded_file,  \* value of the st.file_uploader widget (line 73)
    metric_sel,     \* value of the st.selectbox widget (line 153)
    seed,           \* the list handed to SparkSim(...), as it was at construction
    has_sim,        \* "sim" in st.session_state (line 111)
    sim,            \* st.session_state.sim: [original, data, stage, logs]
    dag,            \* the PipelineDAG of the last run: [nodes, types, edges]
    frame           \* what the last run displayed

vars == <<uploaded_file, metric_sel, seed, has_sim, sim, dag, frame>>

(***************************************************************************)
(* Bounds of the model.                                                    *)
(***************************************************************************)
\* longest seed list besides the default one
MaxLen == 3
\* longest node list of an uploaded configuration
MaxNodes == 2
\* SpecAPI: most transformation calls on a SparkSim since its last reset
MaxCalls == 3
\* SpecDAG: most nodes and most edges of a graph
MaxGraphNodes == 2
MaxGraphEdges == 1

(***************************************************************************)
(* Records of the toy dataset.                                             *)
(***************************************************************************)
Keys == {"apple", "banana", "carrot"}

Values == {-1, 1}

Rec(key, val) == [k |-> key, v |-> val]

Records == {Rec(key, val) : key \in Keys, val \in Values}

\* lines 112-117
DefaultSeed == <<Rec("apple", 1), Rec("banana", 1), Rec("apple", 1), Rec("carrot", 1)>>

Seeds == {DefaultSeed} \cup UNION {[1..n -> Records] : n \in 0..MaxLen}

(***************************************************************************)
(* class SparkSim (lines 38-66).  An instance is the record                *)
(* [original, data, stage, logs]; a method maps the instance before the    *)
(* call to the instance after it.  Python integers are unbounded, so the   *)
(* values are plain integers.                                              *)
(***************************************************************************)
LogMap == "→ map: Multiplied each value by 2"

LogFilter == "→ filter: Removed entries where key == 'banana'"

LogReduce == "→ reduceByKey: Summed values grouped by key"

\* __init__: original is the argument itself, data a shallow copy of it
SparkSim(list) == [original |-> list, data |-> list, stage |-> 0, logs |-> <<>>]

\* mutant of map: another factor
map_times_three(s) ==
    [s EXCEPT !.logs = Append(@, LogMap),
              !.data = [i \in 1..Len(s.data) |-> Rec(s.data[i].k, s.data[i].v * 3)],
              !.stage = @ + 1]

map(s) ==
    [s EXCEPT !.logs = Append(@, LogMap),
              !.data = [i \in 1..Len(s.data) |-> Rec(s.data[i].k, s.data[i].v * 2)],
              !.stage = @ + 1]

KeepItem(item) == item.k # "banana"

\* mutant of filter: the stage counter is not advanced
filter_no_increment(s) ==
    [s EXCEPT !.logs = Append(@, LogFilter),
              !.data = SelectSeq(s.data, KeepItem)]

RECURSIVE remove_first_banana(_)
remove_first_banana(data) ==
    IF data = <<>> THEN <<>>
    ELSE IF Head(data).k = "banana" THEN Tail(data)
    ELSE <<Head(data)>> \o remove_first_banana(Tail(data))

\* mutant of filter: only the first 'banana' record is removed
filter_first_only(s) ==
    [s EXCEPT !.logs = Append(@, LogFilter),
              !.data = remove_first_banana(s.data),
              !.stage = @ + 1]

filter(s) ==
    [s EXCEPT !.logs = Append(@, LogFilter),
              !.data = SelectSeq(s.data, KeepItem),
              !.stage = @ + 1]

\* mutant of grouped_append: a known key keeps only its latest value
grouped_append_overwrite(grouped, item) ==
    IF \E i \in 1..Len(grouped) : grouped[i].k = item.k
    THEN [i \in 1..Len(grouped) |->
             IF grouped[i].k = item.k
             THEN [grouped[i] EXCEPT !.vs = <<item.v>>]
             ELSE grouped[i]]
    ELSE Append(grouped, [k |-> item.k, vs |-> <<item.v>>])

\* mutant of grouped_append: every item opens a group of its own
grouped_append_always_new(grouped, item) ==
    Append(grouped, [k |-> item.k, vs |-> <<item.v>>])

\* grouped[k].append(v) on a defaultdict(list): a dict keeps its keys in the
\* order of their first insertion
grouped_append(grouped, item) ==
    IF \E i \in 1..Len(grouped) : grouped[i].k = item.k
    THEN [i \in 1..Len(grouped) |->
             IF grouped[i].k = item.k
             THEN [grouped[i] EXCEPT !.vs = Append(@, item.v)]
             ELSE grouped[i]]
    ELSE Append(grouped, [k |-> item.k, vs |-> <<item.v>>])

RECURSIVE group_all(_, _)
\* the loop of lines 58-59 over the rest of the list
group_all(grouped, rest) ==
    IF rest = <<>> THEN grouped
    ELSE group_all(grouped_append(grouped, Head(rest)), Tail(rest))

RECURSIVE sum(_)
\* the builtin sum: 0 plus the items, left to right
sum(vs) == IF vs = <<>> THEN 0 ELSE Head(vs) + sum(Tail(vs))

\* mutant of reduceByKey: no log line
reduceByKey_no_log(s) ==
    LET grouped == group_all(<<>>, s.data)
    IN  [s EXCEPT !.data = [i \in 1..Len(grouped) |-> Rec(grouped[i].k, sum(grouped[i].vs))],
                  !.stage = @ + 1]

reduceByKey(s) ==
    LET grouped == group_all(<<>>, s.data)
    IN  [s EXCEPT !.logs = Append(@, LogReduce),
                  !.data = [i \in 1..Len(grouped) |-> Rec(grouped[i].k, sum(grouped[i].vs))],
                  !.stage = @ + 1]

\* mutant of reset: the records are not restored
reset_keeps_data(s) == [s EXCEPT !.stage = 0, !.logs = <<>>]

reset(s) == [s EXCEPT !.data = s.original, !.stage = 0, !.logs = <<>>]

\* mutant of next_stage: the last branch is an else
next_stage_else_reduce(s) ==
    IF s.stage = 0 THEN map(s)
    ELSE IF s.stage = 1 THEN filter(s)
    ELSE reduceByKey(s)

\* body of `if col1.button("Next Stage")` (lines 131-136)
next_stage(s) ==
    IF s.stage = 0 THEN map(s)
    ELSE IF s.stage = 1 THEN filter(s)
    ELSE IF s.stage = 2 THEN reduceByKey(s)
    ELSE s

RECURSIVE max_from(_, _)
\* the builtin max over a non-empty list: keeps the first of the largest
max_from(best, rest) ==
    IF rest = <<>> THEN best
    ELSE max_from(IF Head(rest) > best THEN Head(rest) ELSE best, Tail(rest))

\* mutant of max_value: the running maximum starts at 0
max_value_from_zero(data) ==
    max_from(0, [i \in 1..Len(data) |-> data[i].v])

\* max([v for (_, v) in sim.data], default=0) (line 157)
max_value(data) ==
    LET vs == [i \in 1..Len(data) |-> data[i].v]
    IN  IF vs = <<>> THEN 0 ELSE max_from(Head(vs), Tail(vs))

\* len(sim.data) (line 155)
unique_keys(data) == Len(data)

Metrics == <<"Total Unique Keys", "Max Value">>

metric_value(metric, data) ==
    IF metric = "Total Unique Keys" THEN unique_keys(data) ELSE max_value(data)

(***************************************************************************)
(* class PipelineDAG (lines 8-35) over networkx.DiGraph.  A DiGraph keeps  *)
(* its nodes in a dict keyed by node id (insertion order, one entry per    *)
(* id), each with a dict of attributes, and its edges as ordered pairs.    *)
(*   nodes  the node ids in insertion order                                *)
(*   types  the 'type' attribute, as pairs <<id, type>>                    *)
(*   edges  the pairs <<from, to>>                                         *)
(***************************************************************************)
PipelineDAG == [nodes |-> <<>>, types |-> {}, edges |-> {}]

has_node(g, n) == \E i \in 1..Len(g.nodes) : g.nodes[i] = n

\* mutant of add_node: a known id keeps the type it has
add_node_keeps_type(g, node_id, node_type) ==
    IF has_node(g, node_id) /\ \E p \in g.types : p[1] = node_id
    THEN g
    ELSE [g EXCEPT !.nodes = IF has_node(g, node_id) THEN @ ELSE Append(@, node_id),
                   !.types = @ \cup {<<node_id, node_type>>}]

\* mutant of add_node: a known id is appended again
add_node_appends(g, node_id, node_type) ==
    [g EXCEPT !.nodes = Append(@, node_id),
              !.types = {p \in @ : p[1] # node_id} \cup {<<node_id, node_type>>}]

\* DiGraph.add_node(n, type=t): a new id is appended, a known id keeps its
\* place and has its attribute updated
add_node(g, node_id, node_type) ==
    [g EXCEPT !.nodes = IF has_node(g, node_id) THEN @ ELSE Append(@, node_id),
              !.types = {p \in @ : p[1] # node_id} \cup {<<node_id, node_type>>}]

\* mutant of add_edge: the edge is stored, its endpoints are not made nodes
add_edge_no_nodes(g, from_node, to_node) ==
    [g EXCEPT !.edges = @ \cup {<<from_node, to_node>>}]

\* DiGraph.add_edge(u, v): an endpoint that is no node yet becomes one, with no
\* attributes, u before v
add_edge(g, from_node, to_node) ==
    LET g1 == IF has_node(g, from_node) THEN g
              ELSE [g EXCEPT !.nodes = Append(@, from_node)]
        g2 == IF has_node(g1, to_node) THEN g1
              ELSE [g1 EXCEPT !.nodes = Append(@, to_node)]
    IN  [g2 EXCEPT !.edges = @ \cup {<<from_node, to_node>>}]

\* highlight=None: no node id (a string) equals None
None == "None"

\* draw: the layout (lines 20-23) only places the nodes; what is drawn is the
\* label of each node that has a type (lines 25-26) and one colour per node of
\* the graph, in node order (line 28)
draw(g, highlight) ==
    [labels |-> g.types,
     node_colors |-> [i \in 1..Len(g.nodes) |->
                         IF g.nodes[i] = highlight THEN "orange" ELSE "skyblue"]]

(***************************************************************************)
(* Uploaded documents.  A document is the content of the uploaded file:    *)
(*   "malformed"  text that json.load rejects                              *)
(*   "falsy"      JSON whose value is falsy in Python: {} [] null 0 "" false*)
(*   "object"     a non-empty JSON object, with or without the "nodes" and *)
(*                "edges" keys                                             *)
(* NoFile is the uploader with no file, NoPipeline is `pipeline = None`.   *)
(***************************************************************************)
Doc(kind, has_nodes, has_edges, nodes, edges) ==
    [kind |-> kind, has_nodes |-> has_nodes, has_edges |-> has_edges,
     nodes |-> nodes, edges |-> edges]

NoFile == Doc("nofile", FALSE, FALSE, <<>>, <<>>)

NoPipeline == Doc("None", FALSE, FALSE, <<>>, <<>>)

Node(id, type) == [id |-> id, type |-> type]

\* lines 87-101
DefaultPipeline ==
    Doc("object", TRUE, TRUE,
        <<Node("read", "source"), Node("map1", "transformation"),
          Node("filter1", "transformation"), Node("reduce1", "shuffle"),
          Node("output", "sink")>>,
        <<<<"read", "map1">>, <<"map1", "filter1">>,
          <<"filter1", "reduce1">>, <<"reduce1", "output">>>>)

\* the nodes of uploaded configurations
ConfigNodes ==
    {Node("read", "source"), Node("map1", "transformation"),
     Node("filter1", "transformation"), Node("reduce1", "shuffle")}

NodeLists == UNION {[1..n -> ConfigNodes] : n \in 0..MaxNodes}

\* the edges that chain a list of ids
Chain(ids) == [i \in 1..(Len(ids) - 1) |-> <<ids[i], ids[i + 1]>>]

NodeIds(nodes) == [i \in 1..Len(nodes) |-> nodes[i].id]

\* for a node list: no edge, its chain, its chain continued to a node "output"
\* that the list may not hold
EdgeLists(nodes) ==
    {<<>>, Chain(NodeIds(nodes)), Chain(Append(NodeIds(nodes), "output"))}

Documents ==
    {NoFile, Doc("malformed", FALSE, FALSE, <<>>, <<>>), Doc("falsy", FALSE, FALSE, <<>>, <<>>)}
    \cup UNION {{Doc("object", TRUE, TRUE, nl, el) : el \in EdgeLists(nl)} : nl \in NodeLists}
    \cup {Doc("object", TRUE, FALSE, <<n>>, <<>>) : n \in ConfigNodes}
    \cup {Doc("object", FALSE, hasE, <<>>, <<>>) : hasE \in BOOLEAN}

(***************************************************************************)
(* The script (lines 69-160), one run.                                     *)
(***************************************************************************)
\* mutant of load_pipeline: no fallback to the default, pipeline stays None
load_pipeline_no_fallback(file) ==
    IF file = NoFile
    THEN [pipeline |-> NoPipeline, notice |-> "none"]
    ELSE IF file.kind = "malformed"
    THEN [pipeline |-> NoPipeline, notice |-> "error"]
    ELSE [pipeline |-> file, notice |-> "success"]

\* lines 75-101: the uploaded document if it parses to a truthy value, the
\* default otherwise; notice is st.success / st.error
load_pipeline(file) ==
    IF file = NoFile
    THEN [pipeline |-> DefaultPipeline, notice |-> "none"]
    ELSE IF file.kind = "malformed"
    THEN [pipeline |-> DefaultPipeline, notice |-> "error"]
    ELSE IF file.kind = "falsy"
    THEN [pipeline |-> DefaultPipeline, notice |-> "success"]
    ELSE [pipeline |-> file, notice |-> "success"]

RECURSIVE add_nodes(_, _)
\* the loop of lines 105-106
add_nodes(g, nodes) ==
    IF nodes = <<>> THEN g
    ELSE add_nodes(add_node(g, Head(nodes).id, Head(nodes).type), Tail(nodes))

RECURSIVE add_edges(_, _)
\* the loop of lines 107-108
add_edges(g, edges) ==
    IF edges = <<>> THEN g
    ELSE add_edges(add_edge(g, Head(edges)[1], Head(edges)[2]), Tail(edges))

\* lines 104-108; pipeline["nodes"] and pipeline["edges"] raise KeyError when
\* the key is absent, which ends the run
build_dag(pipeline) ==
    IF ~pipeline.has_nodes
    THEN [raised |-> TRUE, dag |-> PipelineDAG]
    ELSE IF ~pipeline.has_edges
    THEN [raised |-> TRUE, dag |-> add_nodes(PipelineDAG, pipeline.nodes)]
    ELSE [raised |-> FALSE,
          dag |-> add_edges(add_nodes(PipelineDAG, pipeline.nodes), pipeline.edges)]

\* the characters of the node ids the model uses
Chars(id) ==
    CASE id = "read" -> <<"r", "e", "a", "d">>
      [] id = "map1" -> <<"m", "a", "p", "1">>
      [] id = "filter1" -> <<"f", "i", "l", "t", "e", "r", "1">>
      [] id = "reduce1" -> <<"r", "e", "d", "u", "c", "e", "1">>
      [] id = "output" -> <<"o", "u", "t", "p", "u", "t">>

\* Python's `sub in text` on strings
contains(text, sub) ==
    \E i \in 0..(Len(text) - Len(sub)) : SubSeq(text, i + 1, i + Len(sub)) = sub

is_stage_node(n) ==
    \/ contains(Chars(n.id), <<"m", "a", "p">>)
    \/ contains(Chars(n.id), <<"f", "i", "l", "t", "e", "r">>)
    \/ contains(Chars(n.id), <<"r", "e", "d", "u", "c", "e">>)

\* line 123
stage_nodes(pipeline) == NodeIds(SelectSeq(pipeline.nodes, is_stage_node))

\* line 124
current_stage(pipeline, s) ==
    IF s.stage < Len(stage_nodes(pipeline))
    THEN stage_nodes(pipeline)[s.stage + 1]
    ELSE None

Frame(status, notice, clicked, highlight, drawing, logs, data, metric, value) ==
    [status |-> status, notice |-> notice, clicked |-> clicked,
     highlight |-> highlight, labels |-> drawing.labels,
     node_colors |-> drawing.node_colors,
     logs |-> logs, data |-> data, metric |-> metric, value |-> value]

NoDrawing == [labels |-> {}, node_colors |-> <<>>]

\* before the first run nothing is displayed
NoFrame == Frame("none", "none", "none", None, NoDrawing, <<>>, <<>>, "none", 0)

\* mutant of session_sim: every run constructs the simulator
session_sim_always_new(has, s, list) == SparkSim(list)

\* lines 111-119: the simulator of the session, constructed by the run that
\* finds none in st.session_state
session_sim(has, s, list) == IF has THEN s ELSE SparkSim(list)

\* lines 130-138: at most one button is True in a run
handle_buttons(s, clicked) ==
    IF clicked = "next" THEN next_stage(s)
    ELSE IF clicked = "reset" THEN reset(s)
    ELSE s

\* One run of the script with `file` in the uploader, `sel` in the metric
\* selectbox and the button `clicked` ("none", "next" or "reset").
\* A widget that a run does not render loses its value: the selectbox starts
\* again at its first option the next time it is rendered.
Run(file, sel, clicked) ==
    LET loaded == load_pipeline(file)
        pipeline == loaded.pipeline
        built == build_dag(pipeline)
        s0 == session_sim(has_sim, sim, seed)
        drawing == draw(built.dag, current_stage(pipeline, s0))
        s1 == handle_buttons(s0, clicked)
        shown == s1.stage >= 3
    IN  /\ uploaded_file' = file
        /\ dag' = built.dag
        /\ seed' = seed
        /\ IF built.raised
           THEN /\ UNCHANGED <<has_sim, sim>>
                /\ metric_sel' = Metrics[1]
                /\ frame' = Frame("raised", loaded.notice, "none", None, NoDrawing,
                                  <<>>, <<>>, "none", 0)
           ELSE /\ has_sim' = TRUE
                /\ sim' = s1
                /\ metric_sel' = IF shown THEN sel ELSE Metrics[1]
                /\ frame' = Frame("ok", loaded.notice, clicked,
                                  current_stage(pipeline, s0), drawing,
                                  s1.logs, s1.data,
                                  IF shown THEN sel ELSE "none",
                                  IF shown THEN metric_value(sel, s1.data) ELSE 0)

(***************************************************************************)
(* The interactions.  Each one triggers a run.                             *)
(***************************************************************************)
\* the first run of the session, or a rerun with nothing changed
Rerun == Run(uploaded_file, metric_sel, "none")

\* the uploader is the first widget of every frame: upload, replace or remove
Upload ==
    /\ frame.status # "none"
    /\ \E doc \in Documents : doc # uploaded_file /\ Run(doc, metric_sel, "none")

\* the buttons are rendered by a run that got as far as line 130
ClickNext == frame.status = "ok" /\ Run(uploaded_file, metric_sel, "next")

ClickReset == frame.status = "ok" /\ Run(uploaded_file, metric_sel, "reset")

\* the selectbox is rendered when the stage is 3 or more (line 151)
SelectMetric ==
    /\ frame.metric # "none"
    /\ \E i \in 1..Len(Metrics) : Metrics[i] # metric_sel /\ Run(uploaded_file, Metrics[i], "none")

InitSession ==
    /\ uploaded_file = NoFile
    /\ metric_sel = Metrics[1]
    /\ has_sim = FALSE
    /\ sim = SparkSim(<<>>)
    /\ dag = PipelineDAG
    /\ frame = NoFrame

\* the application: the seed is the literal of lines 112-117
Init == seed = DefaultSeed /\ InitSession

Next == Rerun \/ Upload \/ ClickNext \/ ClickReset \/ SelectMetric

Spec == Init /\ [][Next]_vars

\* the script with SparkSim built on any seed, default pipeline
InitSeeds == seed \in Seeds /\ InitSession

NextSeeds == Rerun \/ ClickNext \/ ClickReset \/ SelectMetric

SpecSeeds == InitSeeds /\ [][NextSeeds]_vars

(***************************************************************************)
(* SpecAPI: the methods of one SparkSim instance called directly.          *)
(***************************************************************************)
InitAPI ==
    /\ seed \in Seeds
    /\ uploaded_file = NoFile
    /\ metric_sel = Metrics[1]
    /\ has_sim = TRUE
    /\ sim = SparkSim(seed)
    /\ dag = PipelineDAG
    /\ frame = NoFrame

CallMap ==
    /\ sim.stage < MaxCalls
    /\ sim' = map(sim)
    /\ UNCHANGED <<uploaded_file, metric_sel, seed, has_sim, dag, frame>>

CallFilter ==
    /\ sim.stage < MaxCalls
    /\ sim' = filter(sim)
    /\ UNCHANGED <<uploaded_file, metric_sel, seed, has_sim, dag, frame>>

CallReduceByKey ==
    /\ sim.stage < MaxCalls
    /\ sim' = reduceByKey(sim)
    /\ UNCHANGED <<uploaded_file, metric_sel, seed, has_sim, dag, frame>>

CallReset ==
    /\ sim' = reset(sim)
    /\ UNCHANGED <<uploaded_file, metric_sel, seed, has_sim, dag, frame>>

NextAPI == CallMap \/ CallFilter \/ CallReduceByKey \/ CallReset

SpecAPI == InitAPI /\ [][NextAPI]_vars

(***************************************************************************)
(* SpecDAG: one PipelineDAG, built by add_node and add_edge calls and then *)
(* drawn, any number of times, with any highlight argument.                *)
(***************************************************************************)
DagIds == {"read", "map1", "filter1"}

DagTypes == {"source", "transformation"}

HighlightArgs == DagIds \cup {"output", None}

InitDAG ==
    /\ seed = DefaultSeed
    /\ uploaded_file = NoFile
    /\ metric_sel = Metrics[1]
    /\ has_sim = FALSE
    /\ sim = SparkSim(<<>>)
    /\ dag = PipelineDAG
    /\ frame = NoFrame

AddNode ==
    /\ frame = NoFrame
    /\ \E id \in DagIds, type \in DagTypes :
          /\ dag' = add_node(dag, id, type)
          /\ Len(dag'.nodes) <= MaxGraphNodes
    /\ UNCHANGED <<uploaded_file, metric_sel, seed, has_sim, sim, frame>>

AddEdge ==
    /\ frame = NoFrame
    /\ \E from \in DagIds, to \in DagIds :
          /\ dag' = add_edge(dag, from, to)
          /\ Len(dag'.nodes) <= MaxGraphNodes
          /\ Cardinality(dag'.edges) <= MaxGraphEdges
    /\ UNCHANGED <<uploaded_file, metric_sel, seed, has_sim, sim, frame>>

Draw ==
    /\ \E highlight \in HighlightArgs :
          frame' = Frame("ok", "none", "none", highlight, draw(dag, highlight),
                         <<>>, <<>>, "none", 0)
    /\ UNCHANGED <<uploaded_file, metric_sel, seed, has_sim, sim, dag>>

NextDAG == AddNode \/ AddEdge \/ Draw

SpecDAG == InitDAG /\ [][NextDAG]_vars

(***************************************************************************)
(* SpecAlias: SpecAPI with a caller that keeps the list it handed to       *)
(* SparkSim(...) and mutates it.  __init__ stores the argument itself in   *)
(* self.original (line 40), so that list and sim.original are one object:  *)
(* a mutation by the caller is a mutation of sim.original.  `seed` stays   *)
(* the contents at construction.  The caller mutates the list once.        *)
(***************************************************************************)
\* data.append(r)
CallerAppend ==
    /\ sim.original = seed
    /\ Len(sim.original) < MaxLen
    /\ \E r \in Records : sim' = [sim EXCEPT !.original = Append(@, r)]
    /\ UNCHANGED <<uploaded_file, metric_sel, seed, has_sim, dag, frame>>

\* del data[i]
CallerRemove ==
    /\ sim.original = seed
    /\ \E i \in 1..Len(sim.original) :
          sim' = [sim EXCEPT !.original =
                     SubSeq(@, 1, i - 1) \o SubSeq(@, i + 1, Len(@))]
    /\ UNCHANGED <<uploaded_file, metric_sel, seed, has_sim, dag, frame>>

\* data[i] = r
CallerReplace ==
    /\ sim.original = seed
    /\ \E i \in 1..Len(sim.original), r \in Records :
          /\ r # sim.original[i]
          /\ sim' = [sim EXCEPT !.original[i] = r]
    /\ UNCHANGED <<uploaded_file, metric_sel, seed, has_sim, dag, frame>>

NextAlias ==
    \/ CallerAppend \/ CallerRemove \/ CallerReplace
    \/ CallMap \/ CallFilter \/ CallReduceByKey \/ CallReset

SpecAlias == InitAPI /\ [][NextAlias]_vars

(***************************************************************************)
(* The claims.                                                             *)
(***************************************************************************)

\* C1: a named transformation called out of sequence (map() when stage # 0,
\* filter() when stage # 1, reduceByKey() when stage # 2) is a no-op: stage,
\* records and log are unchanged.  The methods of the source carry no such
\* gate: the property is violated.
C1_NamedCallsGated ==
    [][(\/ CallMap /\ sim.stage # 0
        \/ CallFilter /\ sim.stage # 1
        \/ CallReduceByKey /\ sim.stage # 2) => sim' = sim]_vars

\* C2: a run that handles a "Next Stage" click when the stage counter is 3
\* leaves stage, records and log unchanged, however often it is repeated.
C2_AdvanceAtTerminalNoOp ==
    [][(has_sim /\ sim.stage = 3 /\ frame'.clicked = "next") => sim' = sim]_vars

\* a "Next Stage" click handled at stage 3: under the default pipeline its
\* frame highlights no node, as the stage before the click was already 3
C2_Witness ==
    /\ uploaded_file = NoFile
    /\ frame.clicked = "next"
    /\ frame.highlight = None
    /\ sim.stage = 3
    /\ Len(sim.logs) = 3

\* C3: after a run that handles a "Reset" click, whatever was applied before,
\* the records equal the seed element for element, the stage is 0 and the log
\* is empty.
C3_ResetRestoresSeed ==
    frame.clicked = "reset" =>
        /\ Len(sim.data) = Len(seed)
        /\ \A i \in 1..Len(seed) : sim.data[i] = seed[i]
        /\ sim.stage = 0
        /\ sim.logs = <<>>

\* a reset handled at stage 3 (no node highlighted) on a seed that the
\* pipeline shortens
C3_Witness ==
    /\ frame.clicked = "reset"
    /\ frame.highlight = None
    /\ seed = DefaultSeed
    /\ sim.data = DefaultSeed

\* C4: on the default seed the records are, after the first advance,
\* (apple,2) (banana,2) (apple,2) (carrot,2); after the second, (apple,2)
\* (apple,2) (carrot,2); after the third, (apple,4) (carrot,2) in that order.
C4_DefaultSeedResults ==
    (has_sim /\ seed = DefaultSeed) =>
        /\ sim.stage = 1 =>
              sim.data = <<Rec("apple", 2), Rec("banana", 2), Rec("apple", 2), Rec("carrot", 2)>>
        /\ sim.stage = 2 =>
              sim.data = <<Rec("apple", 2), Rec("apple", 2), Rec("carrot", 2)>>
        /\ sim.stage = 3 =>
              sim.data = <<Rec("apple", 4), Rec("carrot", 2)>>

C4_Witness ==
    /\ seed = DefaultSeed
    /\ frame.clicked = "next"
    /\ sim.stage = 3
    /\ sim.data = <<Rec("apple", 4), Rec("carrot", 2)>>

\* C5: the stage counter is always in {0,1,2,3}; it is 0 when the simulator is
\* created; a "Next Stage" click at a stage s < 3 sets it to s + 1; it only
\* decreases in a run that handles a "Reset" click, which sets it to 0.
C5_StageCounter ==
    /\ [](sim.stage \in 0..3)
    /\ [][/\ (~has_sim /\ has_sim') => sim'.stage = 0
          /\ (has_sim /\ sim.stage < 3 /\ frame'.clicked = "next") =>
                 sim'.stage = sim.stage + 1
          /\ sim'.stage < sim.stage => (frame'.clicked = "reset" /\ sim'.stage = 0)]_vars

C5_Witness == has_sim /\ frame.clicked = "next" /\ sim.stage = 2

\* C6: the log holds one line per transformation applied since the last
\* reset: it is the first `stage` of the three fixed lines, in order.
C6_LogMatchesStage ==
    /\ Len(sim.logs) = sim.stage
    /\ \A i \in 1..Len(sim.logs) : sim.logs[i] = <<LogMap, LogFilter, LogReduce>>[i]

\* the log after an advance at stage 3, which appended nothing
C6_Witness ==
    /\ frame.clicked = "next"
    /\ frame.highlight = None
    /\ sim.logs = <<LogMap, LogFilter, LogReduce>>

\* C7: a run with no file uploaded, or with a file that fails to parse, does
\* not raise and builds the default graph: read(source), map1(transformation),
\* filter1(transformation), reduce1(shuffle), output(sink), chained in that
\* order by four edges.
C7_DefaultOnMissingOrMalformed ==
    (frame.status # "none" /\ uploaded_file.kind \in {"nofile", "malformed"}) =>
        /\ frame.status = "ok"
        /\ dag.nodes = <<"read", "map1", "filter1", "reduce1", "output">>
        /\ dag.types = {<<"read", "source">>, <<"map1", "transformation">>,
                        <<"filter1", "transformation">>, <<"reduce1", "shuffle">>,
                        <<"output", "sink">>}
        /\ dag.edges = {<<"read", "map1">>, <<"map1", "filter1">>,
                        <<"filter1", "reduce1">>, <<"reduce1", "output">>}

\* a run on a malformed upload: the error notice is shown, five nodes drawn
C7_Witness ==
    /\ uploaded_file.kind = "malformed"
    /\ frame.notice = "error"
    /\ Len(frame.node_colors) = 5

Highlighted(colors) == {i \in 1..Len(colors) : colors[i] = "orange"}

\* C8: a drawing of a graph built by add_node and add_edge highlights exactly
\* one node when the highlight argument is the id of a node of the graph and
\* none otherwise (None included); every other node has the one neutral colour.
C8_OneHighlightIffMatch ==
    frame.status = "ok" =>
        /\ Len(frame.node_colors) = Len(dag.nodes)
        /\ Cardinality(Highlighted(frame.node_colors)) =
              (IF \E i \in 1..Len(dag.nodes) : dag.nodes[i] = frame.highlight
               THEN 1 ELSE 0)
        /\ \A i \in 1..Len(frame.node_colors) :
              i \notin Highlighted(frame.node_colors) => frame.node_colors[i] = "skyblue"

\* a two-node graph drawn with one of its nodes highlighted
C8_Witness ==
    /\ Len(dag.nodes) = 2
    /\ frame.status = "ok"
    /\ frame.highlight = dag.nodes[2]
    /\ frame.node_colors = <<"skyblue", "orange">>

\* C9: the "Max Value" metric is the largest value among the current records,
\* and 0 when there is no record.
C9_MaxValue ==
    frame.metric = "Max Value" =>
        IF frame.data = <<>>
        THEN frame.value = 0
        ELSE /\ \E i \in 1..Len(frame.data) : frame.data[i].v = frame.value
             /\ \A i \in 1..Len(frame.data) : frame.data[i].v <= frame.value

\* the metric shown on an empty collection, after the full pipeline on a seed
\* of 'banana' records only
C9_Witness ==
    /\ frame.metric = "Max Value"
    /\ seed # <<>>
    /\ sim.stage = 3
    /\ frame.data = <<>>
    /\ frame.value = 0

\* C10: whenever the metric is shown, "Total Unique Keys" (the number of
\* current records) is the number of distinct keys of the current records,
\* for every seed; on the default seed it is 2.
C10_UniqueKeys ==
    frame.metric = "Total Unique Keys" =>
        /\ frame.value = Cardinality({frame.data[i].k : i \in 1..Len(frame.data)})
        /\ seed = DefaultSeed => frame.value = 2

C10_Witness ==
    /\ frame.metric = "Total Unique Keys"
    /\ seed = DefaultSeed
    /\ sim.stage = 3
    /\ frame.value = 2

\* C11: reset() restores the records to the contents the constructor's list
\* had at construction, also when the caller has mutated that list since.
\* self.original is that very list: the property is violated.
C11_SnapshotIndependent ==
    [][CallReset => sim'.data = seed]_vars

\* C12: in every frame the highlighted node is the one the stage counter
\* selects as it stands when the log and the data of that frame are displayed
\* (default pipeline: 0 map1, 1 filter1, 2 reduce1, 3 none), also in the frame
\* of the run that handles a button.  The script draws the graph (line 125)
\* before it handles the buttons (lines 130-138): the property is violated.
C12_HighlightMatchesDisplayedStage ==
    frame.status = "ok" =>
        /\ frame.highlight = current_stage(load_pipeline(uploaded_file).pipeline, sim)
        /\ uploaded_file = NoFile =>
              frame.highlight = <<"map1", "filter1", "reduce1", None>>[sim.stage + 1]

StageWord(stage) ==
    <<(<<"m", "a", "p">>), (<<"f", "i", "l", "t", "e", "r">>),
      (<<"r", "e", "d", "u", "c", "e">>)>>[stage + 1]

\* C13: for every loaded configuration, in a frame drawn at stage s in
\* {0,1,2} the highlighted node, if there is one, has an id that names the
\* transformation of stage s ('map', 'filter', 'reduce'), and at stage 3 no
\* node is highlighted.  Frames of runs without a button click are taken, in
\* which the stage drawn is the stage displayed.  stage_nodes is indexed by
\* position (line 124): the property is violated.
C13_HighlightNamesStage ==
    (frame.status = "ok" /\ frame.clicked = "none" /\ frame.highlight # None) =>
        /\ sim.stage < 3
        /\ contains(Chars(frame.highlight), StageWord(sim.stage))

KeyIndices(data, key) == {i \in 1..Len(data) : data[i].k = key}

FirstIndex(data, key) ==
    CHOOSE i \in KeyIndices(data, key) : \A j \in KeyIndices(data, key) : i <= j

RECURSIVE SumAt(_, _)
\* the sum of the values of the records at a set of indices
SumAt(data, indices) ==
    IF indices = {} THEN 0
    ELSE LET i == CHOOSE x \in indices : TRUE
         IN  data[i].v + SumAt(data, indices \ {i})

\* C14: reduceByKey() at stage 2 leaves exactly one record per distinct key of
\* its input, in the order in which the keys first appear in the input, each
\* with the sum of the values of the input records of that key; the total of
\* the values is preserved.
C14_ReduceByKey ==
    [][(CallReduceByKey /\ sim.stage = 2) =>
          LET before == sim.data
              after == sim'.data
          IN  /\ {after[j].k : j \in 1..Len(after)} = {before[i].k : i \in 1..Len(before)}
              /\ Len(after) = Cardinality({before[i].k : i \in 1..Len(before)})
              /\ \A j1, j2 \in 1..Len(after) :
                    j1 < j2 => FirstIndex(before, after[j1].k) < FirstIndex(before, after[j2].k)
              /\ \A j \in 1..Len(after) :
                    after[j].v = SumAt(before, KeyIndices(before, after[j].k))
              /\ SumAt(after, 1..Len(after)) = SumAt(before, 1..Len(before))]_vars

\* map, map, reduceByKey on a seed whose first key returns after another key
C14_Witness ==
    /\ sim.logs = <<LogMap, LogMap, LogReduce>>
    /\ Len(seed) = 3
    /\ seed[1].k = seed[3].k
    /\ seed[1].k # seed[2].k
    /\ Len(sim.data) = 2
    /\ sim.data[1].k = seed[1].k
    /\ sim.data[1].v = 4 * (seed[1].v + seed[3].v)

\* the indices of the records whose key is not 'banana'
Kept(data) == {i \in 1..Len(data) : data[i].k # "banana"}

\* C15: for every seed, at stage 2 and beyond no record has the key 'banana';
\* the filter step (the advance at stage 1) removes exactly those records and
\* keeps every other record, with its value, in the same relative order.
C15_FilterRemovesBanana ==
    /\ [](has_sim /\ sim.stage >= 2 =>
             \A i \in 1..Len(sim.data) : sim.data[i].k # "banana")
    /\ [][(has_sim /\ sim.stage = 1 /\ frame'.clicked = "next") =>
             /\ Len(sim'.data) = Cardinality(Kept(sim.data))
             /\ \A i \in Kept(sim.data) :
                   sim'.data[Cardinality({j \in Kept(sim.data) : j <= i})] = sim.data[i]]_vars

\* the filter step applied to a seed with a 'banana' record between two others
C15_Witness ==
    /\ frame.clicked = "next"
    /\ sim.stage = 2
    /\ Len(seed) = 3
    /\ seed[2].k = "banana"
    /\ Len(sim.data) = 2
    /\ sim.data[2].k = seed[3].k

\* C16: node ids are unique in the graph (one entry, at most one type, per
\* id), and add_node(id, type) with an id already present adds no node but
\* sets that node's type to the new one, leaving every other node's type and
\* every edge as they were.
C16_UniqueIdsOverwrite ==
    /\ \A i, j \in 1..Len(dag.nodes) : dag.nodes[i] = dag.nodes[j] => i = j
    /\ \A p, q \in dag.types : p[1] = q[1] => p = q
    /\ \A id \in DagIds, type \in DagTypes :
          (\E i \in 1..Len(dag.nodes) : dag.nodes[i] = id) =>
              LET g == add_node(dag, id, type)
              IN  /\ g.nodes = dag.nodes
                  /\ {p[2] : p \in {q \in g.types : q[1] = id}} = {type}
                  /\ {p \in g.types : p[1] # id} = {p \in dag.types : p[1] # id}
                  /\ g.edges = dag.edges

\* add_edge("map1", "read") made both nodes, then add_node("read", "source")
\* found the id "read" present: no third node, "read" typed, the edge kept
C16_Witness ==
    /\ dag.nodes = <<"map1", "read">>
    /\ dag.edges = {<<"map1", "read">>}
    /\ dag.types = {<<"read", "source">>}

\* C17: after any add_node and add_edge calls both endpoints of every edge are
\* nodes of the graph, also when add_edge named an id that no add_node added
\* (the node is made, without a type), and a drawing colours every node of the
\* graph, typed or not.
C17_EdgeEndpointsAreNodes ==
    /\ \A e \in dag.edges :
          /\ \E i \in 1..Len(dag.nodes) : dag.nodes[i] = e[1]
          /\ \E i \in 1..Len(dag.nodes) : dag.nodes[i] = e[2]
    /\ frame.status = "ok" =>
          /\ Len(frame.node_colors) = Len(dag.nodes)
          /\ \A i \in 1..Len(dag.nodes) :
                frame.node_colors[i] =
                    IF dag.nodes[i] = frame.highlight THEN "orange" ELSE "skyblue"

\* a drawing of a graph made by one add_edge alone: two nodes without type,
\* both coloured, the second one highlighted
C17_Witness ==
    /\ dag.types = {}
    /\ dag.edges = {<<"map1", "filter1">>}
    /\ dag.nodes = <<"map1", "filter1">>
    /\ frame.status = "ok"
    /\ frame.labels = {}
    /\ frame.node_colors = <<"skyblue", "orange">>

\* C18: a run on an uploaded document that parses as JSON does not raise,
\* whatever the shape of the document: the graph is built from it or from the
\* default.  Only the parse is guarded (lines 78-83); a document without the
\* "nodes" or the "edges" key raises KeyError at line 105 or 107: the
\* property is violated.
C18_LoadNeverFatal ==
    (frame.status # "none" /\ uploaded_file.kind \in {"falsy", "object"}) =>
        /\ frame.status = "ok"
        /\ dag \in {build_dag(uploaded_file).dag, build_dag(DefaultPipeline).dag}

\* C19: the session has one simulator, constructed by its first run only; a
\* run without a button click (a rerun, a metric selection, a configuration
\* uploaded, replaced or removed) leaves its stage, records and log unchanged:
\* only Next Stage and Reset change them.
C19_OneSimulatorPerSession ==
    [][/\ has_sim => has_sim'
       /\ (~has_sim /\ has_sim') => (frame.status = "none" /\ sim'.stage = 0 /\ sim'.logs = <<>>)
       /\ (has_sim /\ frame'.clicked = "none") => sim' = sim]_vars

\* a configuration loaded while the simulator is at stage 2, which it keeps
C19_Witness ==
    /\ has_sim
    /\ sim.stage = 2
    /\ Len(sim.logs) = 2
    /\ frame.clicked = "none"
    /\ frame.notice = "success"
    /\ uploaded_file.kind = "object"

====
